---- MODULE Spec2Model ----
(***************************************************************************)
(* Waveform / sequence memory bookkeeping of the Agilent 81180A driver     *)
(* (src/ivi/agilent/agilent81180A.py): the per-channel segment counters,   *)
(* the global sequence counter, the channel selection with its cache flag, *)
(* and the SCPI commands each allocator operation hands to the transport.  *)
(*                                                                         *)
(* Each action is one whole driver method.  `wire` holds the transport     *)
(* calls (_write, _ask, _write_ieee_block) the driver made during the      *)
(* method call, in order; `last` records that call: its arguments, what it *)
(* returned or raised, and the counters as they were before it.  The       *)
(* caller takes the result (Return) before it makes the next call.         *)
(***************************************************************************)
EXTENDS Integers, Sequences, FiniteSets, TLC

VARIABLES
    driver_operation_simulate,  \* self._driver_operation_simulate
    selected_channel,           \* self._selected_channel
    selected_channel_cache,     \* cache-valid flag of the "selected_channel" property
    segment_count,              \* self._segment_count, a list indexed 0..1
    sequence_count,             \* self._sequence_count
    wire,                       \* transport calls of the method call just made
    last,                       \* the method call just made, until the caller took its result
    held                        \* the waveform handles a handle-keeping caller holds

vars == <<driver_operation_simulate, selected_channel, selected_channel_cache,
          segment_count, sequence_count, wire, last, held>>

(***************************************************************************)
(* Bounds.  The driver's table sizes (32000 waveforms per channel, 1000    *)
(* sequences) are scaled down so that the counters reach them.             *)
(***************************************************************************)
MaxWaveforms == 3
MaxSequences == 2
MaxSteps == 3

(***************************************************************************)
(* Program constants.                                                      *)
(***************************************************************************)
output_count == 2
arbitrary_waveform_number_waveforms_max == MaxWaveforms
arbitrary_waveform_size_min == 320
arbitrary_waveform_quantum == 32
arbitrary_sequence_number_sequences_max == MaxSequences
arbitrary_sequence_length_min == 3

Channels == 0 .. (output_count - 1)

(***************************************************************************)
(* Inputs.                                                                 *)
(***************************************************************************)
\* Sample arrays are represented by their length and the set of values that
\* occur in them; 1 and -1 are the ends of the accepted range.
WaveformLengths == {288, 320, 336}
SampleSets == {{-1, 1}, {-2, 1}, {-1, 2}}
WaveformData == [len : WaveformLengths, vals : SampleSets]

\* Handles given to clearWaveform: everything createWaveform can return, and 0.
WaveformHandles == 0 .. (output_count * arbitrary_waveform_number_waveforms_max)

\* Handles given to clearSequence.
SequenceHandles == 0 .. (arbitrary_sequence_number_sequences_max + 1)

\* Step lists given to createSequence: a list of segment handles and a list of
\* loop counts, each of length 0..MaxSteps, not necessarily of equal length.
\* The handle lists are <<5>>, <<5, 7>>, <<5, 7, 9>>, ...: the driver copies
\* handles and never compares them.  The loop counts lie on both sides of the
\* two thresholds (> 1, > 2) of the expansion.
HandleLists == {[i \in 1 .. k |-> 2 * i + 3] : k \in 0 .. MaxSteps}
LoopCounts == {1, 2, 3}
LoopCountLists == UNION {[1 .. k -> LoopCounts] : k \in 0 .. MaxSteps}

\* Answers of the instrument to ":INST?" (1-based channel number).
InstResponses == 1 .. output_count

(***************************************************************************)
(* Transport calls.                                                        *)
(***************************************************************************)
Cmd(name, args) == [cmd |-> name, args |-> args]

NoValue == <<>>
Returned(v) == <<v>>

Snapshot == [segment_count |-> segment_count,
             sequence_count |-> sequence_count,
             selected_channel |-> selected_channel]

Call(op, args, ret, err) ==
    [op |-> op, args |-> args, ret |-> ret, err |-> err, pre |-> Snapshot]

\* No call is in progress and no result is waiting for the caller.
NoCall ==
    [op |-> "none", args |-> <<>>, ret |-> NoValue, err |-> "",
     pre |-> [segment_count |-> [c \in Channels |-> 0],
              sequence_count |-> 0, selected_channel |-> 0]]

Idle == last.op = "none"

(***************************************************************************)
(* Channel selection.  A selection state st is the record                  *)
(* [sel, valid, out]: the selected channel, the cache flag and the         *)
(* transport calls made so far.                                            *)
(***************************************************************************)
\* _set_selected_channel, with _get_selected_channel inlined: the channel is
\* read back from the instrument only when not simulating and the cache is
\* not valid; ":INST n" is written only when the selection differs.
SetSelectedChannel(st, index, resp) ==
    LET query == ~driver_operation_simulate /\ ~st.valid
        current == IF query THEN resp - 1 ELSE st.sel
        asked == IF query THEN <<Cmd(":INST?", <<>>)>> ELSE <<>>
        written == IF ~driver_operation_simulate /\ index # current
                   THEN <<Cmd(":INST", <<index + 1>>)>> ELSE <<>>
    IN  [sel |-> index,
         valid |-> st.valid \/ ~driver_operation_simulate,
         out |-> st.out \o asked \o written]

\* _write_channel: select the channel, then _write the command.
WriteChannel(st, c, index, resp) ==
    LET s == SetSelectedChannel(st, index, resp)
    IN  [s EXCEPT !.out = Append(s.out, c)]

RECURSIVE WriteChannelAll(_, _, _, _)
WriteChannelAll(st, cmds, index, resp) ==
    IF cmds = <<>> THEN st
    ELSE WriteChannelAll(WriteChannel(st, Head(cmds), index, resp),
                         Tail(cmds), index, resp)

Selection == [sel |-> selected_channel, valid |-> selected_channel_cache, out |-> <<>>]

(***************************************************************************)
(* Initial state: __init__.                                                *)
(***************************************************************************)
Init ==
    /\ driver_operation_simulate \in BOOLEAN
    /\ selected_channel = 0
    /\ selected_channel_cache = FALSE
    /\ segment_count = [c \in Channels |-> 0]
    /\ sequence_count = 0
    /\ wire = <<>>
    /\ last = NoCall
    /\ held = {}

\* A method that raises before it changed anything.
Raise(op, args, err) ==
    /\ wire' = <<>>
    /\ last' = Call(op, args, NoValue, err)
    /\ UNCHANGED <<driver_operation_simulate, selected_channel,
                   selected_channel_cache, segment_count, sequence_count>>

(***************************************************************************)
(* createWaveform: _arbitrary_waveform_create_channel_waveform             *)
(***************************************************************************)
\* Variant of NoSpaceLeft: an off-by-one capacity test.
NoSpaceLeftOffByOne(index) ==
    segment_count[index] > arbitrary_waveform_number_waveforms_max

NoSpaceLeft(index) ==
    segment_count[index] >= arbitrary_waveform_number_waveforms_max

\* Variant of SizeNotSupported: the quantum test is left out.
SizeNotSupportedNoQuantum(data) ==
    data.len < arbitrary_waveform_size_min

SizeNotSupported(data) ==
    data.len < arbitrary_waveform_size_min \/ data.len % arbitrary_waveform_quantum # 0

SamplesInRange(data) ==
    \A x \in data.vals : -1 <= x /\ x <= 1

WaveformHandle(segment, index) ==
    segment + index * arbitrary_waveform_number_waveforms_max

arbitrary_waveform_create_channel_waveform(index, data, resp) ==
    LET args == <<index, data>> IN
    IF NoSpaceLeft(index)
    THEN Raise("createWaveform", args, "NoWaveformsAvailableException")
    ELSE IF SizeNotSupported(data)
    THEN Raise("createWaveform", args, "ValueNotSupportedException")
    ELSE IF ~SamplesInRange(data)
    THEN Raise("createWaveform", args, "OutOfRangeException")
    ELSE
        LET s == SetSelectedChannel(Selection, index, resp)
            upload == IF driver_operation_simulate THEN <<>>
                      ELSE <<Cmd(":TRAC:DEF", <<segment_count[index] + 1, data.len>>),
                             Cmd(":TRAC:SEL", <<segment_count[index] + 1>>),
                             Cmd(":TRAC:DATA", <<2 * data.len>>)>>
        IN  /\ segment_count' = [segment_count EXCEPT ![index] = @ + 1]
            /\ selected_channel' = s.sel
            /\ selected_channel_cache' = s.valid
            /\ wire' = s.out \o upload
            /\ last' = Call("createWaveform", args, Returned(WaveformHandle(segment_count[index] + 1, index)), "")
            /\ UNCHANGED <<driver_operation_simulate, sequence_count>>

createWaveform ==
    /\ Idle
    /\ \E index \in Channels, data \in WaveformData, resp \in InstResponses :
        arbitrary_waveform_create_channel_waveform(index, data, resp)
    /\ UNCHANGED held

\* createWaveform by a caller that keeps every handle it is given, with the
\* channel it asked for.
createWaveformHeld ==
    /\ Idle
    /\ \E index \in Channels, data \in WaveformData, resp \in InstResponses :
        /\ arbitrary_waveform_create_channel_waveform(index, data, resp)
        /\ held' = IF last'.ret # NoValue
                   THEN held \cup {[handle |-> last'.ret[1], channel |-> index]}
                   ELSE held

(***************************************************************************)
(* clearWaveform: _arbitrary_waveform_clear                                *)
(***************************************************************************)
\* The channel a handle is decoded to.
HandleChannel(handle) ==
    handle \div arbitrary_waveform_number_waveforms_max

\* The command that deletes the segment of a handle.
DeleteSegment(handle) ==
    Cmd(":TRAC:DEL", <<handle>>)

\* The test that decides whether the counter of the decoded channel is freed.
IsLastSegment(handle, index) ==
    handle = segment_count[index]

arbitrary_waveform_clear(handle, resp) ==
    LET index == HandleChannel(handle)
        s == IF driver_operation_simulate THEN Selection
             ELSE WriteChannel(Selection, DeleteSegment(handle), index, resp)
    IN  /\ selected_channel' = s.sel
        /\ selected_channel_cache' = s.valid
        /\ wire' = s.out
        /\ IF index \notin Channels
           THEN \* self._segment_count[index] raises IndexError
                /\ last' = Call("clearWaveform", <<handle>>, NoValue, "IndexError")
                /\ UNCHANGED segment_count
           ELSE /\ last' = Call("clearWaveform", <<handle>>, NoValue, "")
                /\ segment_count' = IF IsLastSegment(handle, index)
                                    THEN [segment_count EXCEPT ![index] = @ - 1]
                                    ELSE segment_count
        /\ UNCHANGED <<driver_operation_simulate, sequence_count>>

clearWaveform ==
    /\ Idle
    /\ \E handle \in WaveformHandles, resp \in InstResponses :
        arbitrary_waveform_clear(handle, resp)
    /\ UNCHANGED held

\* clearWaveform by a caller that only clears a handle it holds, and then
\* holds it no longer.
clearWaveformHeld ==
    /\ Idle
    /\ \E x \in held, resp \in InstResponses :
        /\ arbitrary_waveform_clear(x.handle, resp)
        /\ held' = held \ {x}

(***************************************************************************)
(* clearAllMemory: _arbitrary_clear_memory                                 *)
(***************************************************************************)
\* Both delete-all commands are written; no counter is assigned.
arbitrary_clear_memory ==
    /\ Idle
    /\ wire' = IF driver_operation_simulate THEN <<>>
               ELSE <<Cmd(":TRAC:DEL:ALL", <<>>), Cmd(":SEQ:DEL:ALL", <<>>)>>
    /\ last' = Call("clearAllMemory", <<>>, NoValue, "")
    /\ UNCHANGED <<driver_operation_simulate, selected_channel,
                   selected_channel_cache, segment_count, sequence_count>>

clearAllMemory ==
    /\ arbitrary_clear_memory
    /\ UNCHANGED held

(***************************************************************************)
(* clearSequence: _arbitrary_sequence_clear                                *)
(***************************************************************************)
\* Variant of IsLastSequence: every handle up to the counter frees it.
IsLastSequenceOrBelow(handle) ==
    handle <= sequence_count

\* The test that decides whether the sequence counter is freed.
IsLastSequence(handle) ==
    handle = sequence_count

arbitrary_sequence_clear(handle) ==
    /\ wire' = IF driver_operation_simulate THEN <<>>
               ELSE <<Cmd(":SEQ:DEL", <<handle>>)>>
    /\ sequence_count' = IF IsLastSequence(handle)
                         THEN sequence_count - 1 ELSE sequence_count
    /\ last' = Call("clearSequence", <<handle>>, NoValue, "")
    /\ UNCHANGED <<driver_operation_simulate, selected_channel,
                   selected_channel_cache, segment_count>>

clearSequence ==
    /\ Idle
    /\ \E handle \in SequenceHandles : arbitrary_sequence_clear(handle)
    /\ UNCHANGED held

(***************************************************************************)
(* createSequence: _arbitrary_sequence_create                              *)
(***************************************************************************)
\* The chained comparison  len(handle_list) != len(loop_count_list) != 0.
InvalidListLength(handle_list, loop_count_list) ==
    Len(handle_list) # Len(loop_count_list) /\ Len(loop_count_list) # 0

\* list.insert(i, x) with a 0-based position i <= len(list).
Insert(list, i, x) ==
    SubSeq(list, 1, i) \o <<x>> \o SubSeq(list, i + 1, Len(list))

\* The three expansions of a list of fewer than 3 steps.  Each result is the
\* record [handles, loops, err].
ExpandFirstOfTwo(h, l) ==
    [handles |-> Insert(h, 1, h[1]),
     loops |-> Insert([l EXCEPT ![1] = @ - 1], 1, 1),
     err |-> ""]

ExpandSecondOfTwo(h, l) ==
    [handles |-> Insert(h, 2, h[2]),
     loops |-> Insert([l EXCEPT ![2] = @ - 1], 2, 1),
     err |-> ""]

\* Variant of ExpandSingleStep: the loop count of the original step is kept.
ExpandSingleStepKeepsCount(h, l) ==
    [handles |-> h \o <<h[1], h[1]>>,
     loops |-> l \o <<1, 1>>,
     err |-> ""]

ExpandSingleStep(h, l) ==
    [handles |-> h \o <<h[1], h[1]>>,
     loops |-> [l EXCEPT ![1] = @ - 2] \o <<1, 1>>,
     err |-> ""]

\* The if / elif / elif chain.  err is "IndexError" when a condition reads a
\* loop count that the loop count list does not have.
ExpandSteps(handle_list, loop_count_list) ==
    LET h == handle_list
        l == loop_count_list
        asis == [handles |-> h, loops |-> l, err |-> ""]
        fail == [handles |-> h, loops |-> l, err |-> "IndexError"]
    IN  IF Len(h) >= arbitrary_sequence_length_min THEN asis
        ELSE IF Len(h) = 2
        THEN IF Len(l) < 1 THEN fail
             ELSE IF l[1] > 1 THEN ExpandFirstOfTwo(h, l)
             ELSE IF Len(l) < 2 THEN fail
             ELSE IF l[2] > 1 THEN ExpandSecondOfTwo(h, l)
             ELSE asis
        ELSE IF Len(h) = 1
        THEN IF Len(l) < 1 THEN fail
             ELSE IF l[1] > 2 THEN ExpandSingleStep(h, l)
             ELSE asis
        ELSE asis

\* The commands written to one channel for sequence k.  Formatting the
\* ":SEQ:DEF" command of step i reads loops[i]; the commands stop before the
\* first step for which that fails.
DefinedSteps(handles, loops) ==
    IF Len(loops) < Len(handles) THEN Len(loops) ELSE Len(handles)

\* Variant of SequenceCommands: the step positions are 0-based.
SequenceCommandsZeroBased(k, handles, loops) ==
    <<Cmd(":SEQ:SEL", <<k>>), Cmd(":SEQ:LENG", <<Len(handles)>>)>>
    \o [i \in 1 .. DefinedSteps(handles, loops) |->
            Cmd(":SEQ:DEF", <<i - 1, handles[i], loops[i], 0>>)]

SequenceCommands(k, handles, loops) ==
    <<Cmd(":SEQ:SEL", <<k>>), Cmd(":SEQ:LENG", <<Len(handles)>>)>>
    \o [i \in 1 .. DefinedSteps(handles, loops) |->
            Cmd(":SEQ:DEF", <<i, handles[i], loops[i], 0>>)]

arbitrary_sequence_create(handle_list, loop_count_list, resp) ==
    LET args == <<handle_list, loop_count_list>>
        e == ExpandSteps(handle_list, loop_count_list)
    IN
    IF InvalidListLength(handle_list, loop_count_list)
    THEN Raise("createSequence", args, "ValueNotSupportedException")
    ELSE IF e.err # ""
    THEN Raise("createSequence", args, e.err)
    ELSE
        LET k == sequence_count + 1
            cmds == SequenceCommands(k, e.handles, e.loops)
            complete == DefinedSteps(e.handles, e.loops) = Len(e.handles)
            s0 == WriteChannelAll(Selection, cmds, 0, resp)
            s1 == IF complete THEN WriteChannelAll(s0, cmds, 1, resp) ELSE s0
        IN  /\ sequence_count' = k
            /\ selected_channel' = s1.sel
            /\ selected_channel_cache' = s1.valid
            /\ wire' = s1.out
            /\ last' = IF complete
                       THEN Call("createSequence", args, Returned(k), "")
                       ELSE Call("createSequence", args, NoValue, "IndexError")
            /\ UNCHANGED <<driver_operation_simulate, segment_count>>

createSequence ==
    /\ Idle
    /\ sequence_count <= arbitrary_sequence_number_sequences_max
    /\ \E handle_list \in HandleLists, loop_count_list \in LoopCountLists,
          resp \in InstResponses :
            arbitrary_sequence_create(handle_list, loop_count_list, resp)
    /\ UNCHANGED held

(***************************************************************************)
(* The method has returned or raised; the caller takes the result.         *)
(***************************************************************************)
Return ==
    /\ ~Idle
    /\ last' = NoCall
    /\ wire' = <<>>
    /\ UNCHANGED <<driver_operation_simulate, selected_channel,
                   selected_channel_cache, segment_count, sequence_count, held>>

Next ==
    \/ createWaveform
    \/ clearWaveform
    \/ clearAllMemory
    \/ createSequence
    \/ clearSequence
    \/ Return

Spec == Init /\ [][Next]_vars

(***************************************************************************)
(* The driver used by a caller that creates waveforms on both channels and *)
(* clears only handles that createWaveform returned to it and that it has  *)
(* not cleared yet.                                                        *)
(***************************************************************************)
NextHeld ==
    \/ createWaveformHeld
    \/ clearWaveformHeld
    \/ Return

SpecHeld == Init /\ [][NextHeld]_vars

(***************************************************************************)
(* Properties.                                                             *)
(***************************************************************************)

\* C1: every handle that a successful createWaveform(c, samples) returns
\* decodes to c: handle // MAX_WAVEFORMS_PER_CHANNEL = c, also for the call
\* that brings the segment counter of c up to the maximum.
C1_HandleRoundTrip ==
    (last.op = "createWaveform" /\ last.ret # NoValue) =>
        last.ret[1] \div arbitrary_waveform_number_waveforms_max = last.args[1]

\* C2: clearWaveform(h) with h the handle of the current top segment of
\* channel c decrements the segment counter of c by exactly 1; with h a handle
\* of c below the top it leaves the segment counter of c unchanged.
C2_ClearWaveformCounter ==
    last.op = "clearWaveform" =>
        \A c \in Channels :
            LET h == last.args[1]
                top == last.pre.segment_count[c]
                base == c * arbitrary_waveform_number_waveforms_max
            IN  /\ (top >= 1 /\ h = top + base) => segment_count[c] = top - 1
                /\ (\E k \in 1 .. (top - 1) : h = k + base) => segment_count[c] = top

\* C3: clearAllMemory() leaves every segment counter and the sequence counter
\* at 0, whatever they were before.
C3_ClearAllMemoryResets ==
    last.op = "clearAllMemory" =>
        /\ \A c \in Channels : segment_count[c] = 0
        /\ sequence_count = 0

\* C4: when not simulating, clearWaveform(h) of the handle h of an allocated
\* segment selects the channel h decodes to and then sends the delete-segment command with the decoded segment index
\* h - channel * MAX_WAVEFORMS_PER_CHANNEL, never the raw handle of a
\* channel-1 waveform.
C4_DeleteCarriesSegmentIndex ==
    (/\ last.op = "clearWaveform"
     /\ ~driver_operation_simulate
     /\ \E w \in Channels : \E k \in 1 .. last.pre.segment_count[w] :
            last.args[1] = k + w * arbitrary_waveform_number_waveforms_max) =>
        LET h == last.args[1]
            c == h \div arbitrary_waveform_number_waveforms_max
        IN  /\ selected_channel = c
            /\ wire # <<>>
            /\ wire[Len(wire)] =
                 [cmd |-> ":TRAC:DEL",
                  args |-> <<h - c * arbitrary_waveform_number_waveforms_max>>]

\* C5: createWaveform(c, s) with len(s) < 320, or len(s) not a multiple of 32,
\* or a sample outside [-1, 1] fails with an error; no segment counter
\* changes, the selected channel does not change and nothing is sent.
C5_InvalidWaveformRejected ==
    LET s == last.args[2] IN
    (/\ last.op = "createWaveform"
     /\ \/ s.len < 320
        \/ s.len % 32 # 0
        \/ \E x \in s.vals : x < -1 \/ x > 1) =>
        /\ last.err # ""
        /\ last.ret = NoValue
        /\ segment_count = last.pre.segment_count
        /\ selected_channel = last.pre.selected_channel
        /\ wire = <<>>

\* A rejected waveform of 336 samples (not a multiple of 32) for channel 1,
\* which holds a segment, while channel 0 is selected and the driver is not
\* simulating.
C5_Witness ==
    /\ last.op = "createWaveform"
    /\ last.args[1] = 1
    /\ last.args[2].len = 336
    /\ last.err = "ValueNotSupportedException"
    /\ last.pre.selected_channel = 0
    /\ last.pre.segment_count[1] = 1
    /\ ~driver_operation_simulate

\* C6: with the segment counter of c at MAX_WAVEFORMS, createWaveform(c, s)
\* fails with NoWaveformsAvailable for every s, valid or not, leaves the
\* counters unchanged and sends nothing; no segment counter ever exceeds
\* MAX_WAVEFORMS.
C6_FullChannelRejects ==
    /\ \A c \in Channels :
           segment_count[c] <= arbitrary_waveform_number_waveforms_max
    /\ (/\ last.op = "createWaveform"
        /\ last.pre.segment_count[last.args[1]]
             = arbitrary_waveform_number_waveforms_max) =>
           /\ last.err = "NoWaveformsAvailableException"
           /\ last.ret = NoValue
           /\ segment_count = last.pre.segment_count
           /\ wire = <<>>

\* createWaveform on a full channel 1 with samples of a length that is itself
\* not supported: the capacity error is the one raised.
C6_Witness ==
    /\ last.op = "createWaveform"
    /\ last.args[1] = 1
    /\ last.args[2].len = 288
    /\ last.pre.segment_count[1] = arbitrary_waveform_number_waveforms_max
    /\ last.err = "NoWaveformsAvailableException"
    /\ ~driver_operation_simulate

\* C7: createSequence with an empty handle list and an empty loop count list
\* fails before any mutation: the sequence counter is unchanged and nothing
\* is sent.
C7_EmptySequenceRejected ==
    (last.op = "createSequence" /\ last.args = << <<>>, <<>> >>) =>
        /\ last.err # ""
        /\ sequence_count = last.pre.sequence_count
        /\ wire = <<>>

\* C8: the steps createSequence uploads (the ":SEQ:DEF" commands, the same
\* list for both channels) play the same segments in the same order as the
\* input steps and keep every loop count >= 1; 2 steps with first loop > 1
\* become [(h0,n0-1),(h0,1),(h1,n1)]; else 2 steps with second loop > 1
\* become [(h0,n0),(h1,n1-1),(h1,1)]; 1 step with loop > 2 becomes
\* [(h0,n0-2),(h0,1),(h0,1)]; 3 or more steps are uploaded unchanged.
C8_SequencePadding ==
    (/\ last.op = "createSequence"
     /\ last.ret # NoValue
     /\ Len(last.args[1]) = Len(last.args[2])) =>
        LET h == last.args[1]
            n == last.args[2]
            IsDef(c) == c.cmd = ":SEQ:DEF"
            defs == SelectSeq(wire, IsDef)
            m == Len(defs) \div 2
            up0 == [i \in 1 .. m |-> <<defs[i].args[2], defs[i].args[3]>>]
            up1 == [i \in 1 .. m |-> <<defs[m + i].args[2], defs[m + i].args[3]>>]
            in == [i \in 1 .. Len(h) |-> <<h[i], n[i]>>]
            Plays(steps) ==
                LET p[k \in 0 .. Len(steps)] ==
                        IF k = 0 THEN <<>>
                        ELSE p[k - 1] \o [j \in 1 .. steps[k][2] |-> steps[k][1]]
                IN  p[Len(steps)]
        IN  /\ Len(defs) = 2 * m
            /\ up1 = up0
            /\ \A i \in 1 .. m : defs[i].args[1] = i /\ defs[m + i].args[1] = i
            /\ Plays(up0) = Plays(in)
            /\ (\A i \in 1 .. Len(in) : in[i][2] >= 1) =>
                   (\A i \in 1 .. m : up0[i][2] >= 1)
            /\ (Len(h) = 2 /\ n[1] > 1) =>
                   up0 = << <<h[1], n[1] - 1>>, <<h[1], 1>>, <<h[2], n[2]>> >>
            /\ (Len(h) = 2 /\ ~(n[1] > 1) /\ n[2] > 1) =>
                   up0 = << <<h[1], n[1]>>, <<h[2], n[2] - 1>>, <<h[2], 1>> >>
            /\ (Len(h) = 1 /\ n[1] > 2) =>
                   up0 = << <<h[1], n[1] - 2>>, <<h[1], 1>>, <<h[1], 1>> >>
            /\ Len(h) >= 3 => up0 = in

\* The single step (5, 3) was uploaded as three steps.
C8_Witness ==
    /\ last.op = "createSequence"
    /\ last.ret # NoValue
    /\ last.args = << <<5>>, <<3>> >>
    /\ Len(wire) >= 8

\* C9: every sequence createSequence uploads for a non-empty step list has at
\* least 3 steps: the ":SEQ:LENG n" commands carry n >= 3.
C9_UploadedAtLeastThreeSteps ==
    (/\ last.op = "createSequence"
     /\ last.args[1] # <<>>
     /\ Len(last.args[1]) = Len(last.args[2])) =>
        \A i \in 1 .. Len(wire) :
            wire[i].cmd = ":SEQ:LENG" => wire[i].args[1] >= 3

\* C10: a simulating driver makes no transport call in any allocator
\* operation.
C10_SimulateSendsNothing ==
    driver_operation_simulate => wire = <<>>

\* C11: clearSequence(h) sends ":SEQ:DEL h" when not simulating (and nothing
\* when simulating); it decrements the sequence counter by exactly 1 if h
\* equals the counter and leaves it unchanged for every other h; the segment
\* counters are unchanged in both cases.
C11_ClearSequence ==
    last.op = "clearSequence" =>
        LET h == last.args[1] IN
        /\ wire = IF driver_operation_simulate THEN <<>>
                  ELSE <<[cmd |-> ":SEQ:DEL", args |-> <<h>>]>>
        /\ h = last.pre.sequence_count =>
               sequence_count = last.pre.sequence_count - 1
        /\ h # last.pre.sequence_count =>
               sequence_count = last.pre.sequence_count
        /\ segment_count = last.pre.segment_count

\* clearSequence(1) with two sequences and a waveform segment allocated, not
\* simulating: the handle is below the top and the counter stays 2.
C11_Witness ==
    /\ last.op = "clearSequence"
    /\ last.args = <<1>>
    /\ last.pre.sequence_count = 2
    /\ sequence_count = 2
    /\ segment_count[1] = 1
    /\ ~driver_operation_simulate

\* C12: a successful createSequence increments the sequence counter by
\* exactly 1 and returns the new value k; for channel 0 and then for channel 1
\* it selects the channel (":INST c+1", written only when not simulating and
\* the channel is not the selected one) and then sends ":SEQ:SEL k",
\* ":SEQ:LENG n" and exactly n commands ":SEQ:DEF i,handle_i,loop_i,0" with
\* i = 1..n in increasing order, n the number of steps after padding; both
\* channels receive the same step list.
C12_CreateSequenceCommands ==
    (last.op = "createSequence" /\ last.ret # NoValue) =>
        LET k == last.ret[1]
            h == last.args[1]
            l == last.args[2]
            IsSeq(c) == c.cmd \in {":SEQ:SEL", ":SEQ:LENG", ":SEQ:DEF"}
            IsDef(c) == c.cmd = ":SEQ:DEF"
            seq == SelectSeq(wire, IsSeq)
            n == Len(SelectSeq(wire, IsDef)) \div 2
            block == SubSeq(seq, 1, n + 2)
            ask == [cmd |-> ":INST?", args |-> <<>>]
            inst1 == [cmd |-> ":INST", args |-> <<1>>]
            inst2 == [cmd |-> ":INST", args |-> <<2>>]
            before0 == IF driver_operation_simulate THEN {<<>>}
                       ELSE {<<>>, <<inst1>>, <<ask>>, <<ask, inst1>>}
            before1 == IF driver_operation_simulate THEN <<>> ELSE <<inst2>>
        IN  /\ k = last.pre.sequence_count + 1
            /\ sequence_count = k
            /\ selected_channel = 1
            /\ Len(seq) = 2 * (n + 2)
            /\ n >= Len(h)
            /\ block[1] = [cmd |-> ":SEQ:SEL", args |-> <<k>>]
            /\ block[2] = [cmd |-> ":SEQ:LENG", args |-> <<n>>]
            /\ \A i \in 1 .. n :
                   /\ block[2 + i].cmd = ":SEQ:DEF"
                   /\ Len(block[2 + i].args) = 4
                   /\ block[2 + i].args[1] = i
                   /\ block[2 + i].args[4] = 0
            /\ Len(h) >= 3 =>
                   \A i \in 1 .. n : /\ block[2 + i].args[2] = h[i]
                                     /\ block[2 + i].args[3] = l[i]
            /\ \E b \in before0 :
                   /\ wire = b \o block \o before1 \o block
                   /\ b = <<>> /\ ~driver_operation_simulate =>
                          last.pre.selected_channel = 0
                   /\ b = <<inst1>> => last.pre.selected_channel # 0

\* createSequence([5, 7], [1, 3]) on a driver that is not simulating and has
\* channel 1 selected: ":INST 1" is written first and three steps go to each
\* channel.
C12_Witness ==
    /\ last.op = "createSequence"
    /\ last.ret # NoValue
    /\ last.args = << <<5, 7>>, <<1, 3>> >>
    /\ ~driver_operation_simulate
    /\ last.pre.selected_channel = 1
    /\ Len(wire) = 12
    /\ wire[1] = [cmd |-> ":INST", args |-> <<1>>]

\* C13: with createWaveform and clearWaveform interleaved on both channels
\* and clearWaveform called only with handles that were returned and are not
\* yet cleared, createWaveform never returns a handle that is still held, and
\* an operation on a waveform of channel c never changes the segment counter
\* of the other channel.
C13_LiveHandles ==
    [][Idle =>
        /\ (last'.op = "createWaveform" /\ last'.ret # NoValue) =>
               last'.ret[1] \notin {x.handle : x \in held}
        /\ \A c \in Channels :
               (\/ last'.op = "createWaveform" /\ last'.args[1] = c
                \/ /\ last'.op = "clearWaveform"
                   /\ [handle |-> last'.args[1], channel |-> c] \in held) =>
                   \A d \in Channels \ {c} : segment_count'[d] = segment_count[d]
      ]_vars

\* C14: in every reachable state, whatever handles clearWaveform and
\* clearSequence are given, each segment counter lies in 0..MAX_WAVEFORMS and
\* the sequence counter lies in 0..MAX_SEQUENCES: no counter is negative and
\* createSequence never allocates a handle above the sequence maximum.
C14_CounterBounds ==
    /\ \A c \in Channels :
           /\ 0 <= segment_count[c]
           /\ segment_count[c] <= arbitrary_waveform_number_waveforms_max
    /\ 0 <= sequence_count
    /\ sequence_count <= arbitrary_sequence_number_sequences_max

====
